---- MODULE Spec2Model ----
(***************************************************************************)
(* Model of the INA219 current sensor driver (UPSCurrentSensor) and of the *)
(* PyMoDAQ viewer plugin DAQ_0DViewer_UPSCurrent that owns it.             *)
(*                                                                         *)
(* Python floats are kept as exact fixed-point integers:                   *)
(*   _current_lsb (mA per bit)  is held in micro-amperes  (0.1 mA = 100),  *)
(*   _power_lsb   (W per bit)   is held in micro-watts    (0.002 W = 2000),*)
(*   a current returned in mA   is held in micro-amperes.                  *)
(***************************************************************************)
EXTENDS Integers, Sequences, FiniteSets, TLC

VARIABLES
    acks,        \* environment: the bus addresses at which a device acknowledges
    is_master,   \* plugin setting self.is_master
    handles,     \* every smbus.SMBus handle opened so far: [by, open]
    drivers,     \* the UPSCurrentSensor objects whose constructor returned
    controller,  \* the plugin's self.controller: None or an index into drivers
    lastOp,      \* the operation just executed, with its bus transactions
    cfgIn,       \* configuration fields handed to the config word encoder
    cfgWord,     \* the config word built from cfgIn (None before it is built)
    word,        \* a 16-bit value written to a register and read back
    volt,        \* the load voltage plugin: its controller and its last operation
    conc,        \* callers running sensor operations concurrently on one bus
    relay,       \* the relay plugin, its GPIO pins and its settings
    servo,       \* the servo plugin, its ServoWrapper and the servo's value
    dist         \* the 0D distance sensor plugin and its sensor objects

vars == <<acks, is_master, handles, drivers, controller, lastOp, cfgIn, cfgWord,
          word, volt, conc, relay, servo, dist>>

drvVars == <<acks, is_master, handles, drivers, controller, lastOp>>
codecVars == <<cfgIn, cfgWord>>
auxVars == <<word, volt, conc>>
gpioVars == <<relay, servo, dist>>

(***************************************************************************)
(* Bounds of the model.                                                    *)
(***************************************************************************)
MaxHandles == 3     \* bus handles opened over a behaviour
MaxDrivers == 2     \* sensor objects constructed over a behaviour
MaxFailAt  == 4     \* index of the register transaction an operation may lose
NThreads   == 2     \* callers running concurrently
MaxSensors == 3     \* DistanceSensor objects built

(***************************************************************************)
(* Program constants.                                                      *)
(***************************************************************************)
None == -1

_REG_CONFIG      == 0
_REG_BUSVOLTAGE   == 2
_REG_CURRENT     == 4
_REG_CALIBRATION == 5

RANGE_16V == 0
RANGE_32V == 1
BusVoltageRange == {RANGE_16V, RANGE_32V}

DIV_8_320MV == 3
Gain == 0..DIV_8_320MV

ADCRES_12BIT_32S == 13
ADCResolution == {0, 1, 2, 3, 9, 10, 11, 12, ADCRES_12BIT_32S, 14, 15}

SANDBVOLT_CONTINUOUS == 7
Mode == 0..SANDBVOLT_CONTINUOUS

(***************************************************************************)
(* Python integer operators on non-negative integers.                      *)
(***************************************************************************)
RECURSIVE BitAnd(_, _)
BitAnd(a, b) ==
    IF a = 0 \/ b = 0 THEN 0
    ELSE (IF a % 2 = 1 /\ b % 2 = 1 THEN 1 ELSE 0) + 2 * BitAnd(a \div 2, b \div 2)

RECURSIVE BitOr(_, _)
BitOr(a, b) ==
    IF a = 0 THEN b
    ELSE IF b = 0 THEN a
    ELSE (IF a % 2 = 1 \/ b % 2 = 1 THEN 1 ELSE 0) + 2 * BitOr(a \div 2, b \div 2)

ShiftLeft(a, n) == a * 2^n
ShiftRight(a, n) == a \div 2^n

(***************************************************************************)
(* The environment's inputs.                                               *)
(***************************************************************************)
\* The sets of acknowledging addresses a behaviour may start with.
AckSets == { {}, {65}, {118}, {3, 118}, {2, 119}, {65, 119} }

\* Addresses a caller passes explicitly to the constructor.
ExplicitAddrs == {65, 119}

\* What the environment does to one operation: opening the driver's bus
\* handle fails, opening the probe's handle fails, or the failAt-th register
\* transaction is lost (0: none is).  The first fault aborts the operation,
\* so one fault per operation covers every combination.
Faults ==
    {[openOk |-> FALSE, probeOpenOk |-> TRUE, failAt |-> 0],
     [openOk |-> TRUE, probeOpenOk |-> FALSE, failAt |-> 0]}
    \cup {[openOk |-> TRUE, probeOpenOk |-> TRUE, failAt |-> k] : k \in 0..MaxFailAt}

\* Raw 16-bit words the device returns for the Current register.
RawWords == {1, 50, 32767, 32768, 65535}

(***************************************************************************)
(* Bus transactions.  An operation's transport state is a record           *)
(*   [log, err, n]: the transactions issued so far, the exception raised   *)
(*   ("none" while running) and the number of register transactions tried. *)
(***************************************************************************)
Tx(op, addr, reg, data) ==
    [op |-> op, addr |-> addr, reg |-> reg, data |-> data, ok |-> TRUE]

StartCtx(log) == [log |-> log, err |-> "none", n |-> 0]

\* One smbus register call (read_i2c_block_data / write_i2c_block_data) on a
\* handle: a closed handle raises without reaching the bus; an open one
\* issues the transaction, which fails when the device does not acknowledge
\* or the transfer is lost (the failAt-th transaction of the operation).
BusCall(ctx, open, tx, failAt) ==
    IF ctx.err # "none" THEN ctx
    ELSE IF ~open THEN [ctx EXCEPT !.err = "OSError"]
    ELSE LET ok == tx.addr \in acks /\ ctx.n + 1 # failAt
         IN  [log |-> Append(ctx.log, [tx EXCEPT !.ok = ok]),
              err |-> IF ok THEN "none" ELSE "OSError",
              n   |-> ctx.n + 1]

(***************************************************************************)
(* find_ina219_address                                                     *)
(***************************************************************************)
ProbeFirst == 3
ProbeStop  == 119

\* Python range(a, b) as a sequence
Range(a, b) == [i \in 1..(IF b > a THEN b - a ELSE 0) |-> a + i - 1]

ProbeCandidates_short == Range(ProbeFirst, ProbeStop - 1)

ProbeCandidates_every_address == Range(0, 128)

ProbeCandidates == Range(ProbeFirst, ProbeStop)

\* The for loop over the candidates, in their order: write_quick at each,
\* "continue" on OSError, "return addr" at the first that acknowledges.
\* ReturnIndex is the iteration at which the loop returns (0: it runs out).
ReturnIndex(cands) ==
    LET hits == {i \in 1..Len(cands) : cands[i] \in acks}
    IN  IF hits = {} THEN 0 ELSE CHOOSE i \in hits : \A j \in hits : i <= j

ProbeLoop(cands) ==
    LET k == ReturnIndex(cands)
        n == IF k = 0 THEN Len(cands) ELSE k
    IN  [log   |-> [i \in 1..n |->
                      [Tx("quick", cands[i], None, <<>>) EXCEPT !.ok = (cands[i] \in acks)]],
         found |-> IF k = 0 THEN None ELSE cands[k]]

\* Opens its own bus handle, which it never closes explicitly.
find_ina219_address(probeOpenOk) ==
    IF ~probeOpenOk
    THEN [log |-> <<>>, found |-> None, err |-> "OSError", opened |-> <<>>]
    ELSE LET r == ProbeLoop(ProbeCandidates)
         IN  [log |-> r.log, found |-> r.found, err |-> "none",
              opened |-> <<[by |-> "probe", open |-> TRUE]>>]

(***************************************************************************)
(* UPSCurrentSensor                                                        *)
(***************************************************************************)
read_retry(ctx, open, addr, address, data, failAt) ==
    LET tx == Tx("read", addr, address, data)
        c1 == BusCall(ctx, open, tx, failAt)
        c2 == IF c1.err # "none" /\ Len(c1.log) > Len(ctx.log)
              THEN BusCall([c1 EXCEPT !.err = "none"], open, tx, failAt)
              ELSE c1
    IN  [ctx |-> c2,
         ret |-> IF c2.err = "none" THEN (data[1] * 256) + data[2] ELSE None]

\* read(address): one 2-byte block read, combined most significant byte first.
\* data is what the device sends.
read(ctx, open, addr, address, data, failAt) ==
    LET c == BusCall(ctx, open, Tx("read", addr, address, data), failAt)
    IN  [ctx |-> c,
         ret |-> IF c.err = "none" THEN (data[1] * 256) + data[2] ELSE None]

write_swallow(ctx, open, addr, address, data, failAt) ==
    LET temp == << ShiftRight(BitAnd(data, 65280), 8), BitAnd(data, 255) >>
        tx == Tx("write", addr, address, temp)
        c1 == BusCall(ctx, open, tx, failAt)
        c2 == BusCall([c1 EXCEPT !.err = "none"], open, tx, failAt)
    IN  [c2 EXCEPT !.err = "none"]

write_low_first(ctx, open, addr, address, data, failAt) ==
    LET temp == << BitAnd(data, 255), ShiftRight(BitAnd(data, 65280), 8) >>
        tx == Tx("write", addr, address, temp)
        c1 == BusCall(ctx, open, tx, failAt)
        c2 == BusCall(c1, open, tx, failAt)
    IN  IF ctx.err # "none" THEN ctx
        ELSE IF c1.err # "none" THEN c1
        ELSE IF c2.err # "none" THEN [c2 EXCEPT !.err = "IOError"]
        ELSE c2

\* write(address, data): the block write is called twice, first outside the
\* try (its OSError propagates), then inside it (re-raised as IOError).
write(ctx, open, addr, address, data, failAt) ==
    LET temp == << ShiftRight(BitAnd(data, 65280), 8), BitAnd(data, 255) >>
        tx == Tx("write", addr, address, temp)
        c1 == BusCall(ctx, open, tx, failAt)
        c2 == BusCall(c1, open, tx, failAt)
    IN  IF ctx.err # "none" THEN ctx
        ELSE IF c1.err # "none" THEN c1
        ELSE IF c2.err # "none" THEN [c2 EXCEPT !.err = "IOError"]
        ELSE c2

EncodeConfig_overlap(bus_voltage_range, gain, bus_adc_resolution, shunt_adc_resolution, mode) ==
    BitOr(BitOr(BitOr(BitOr(ShiftLeft(bus_voltage_range, 13),
                            ShiftLeft(gain, 11)),
                      ShiftLeft(bus_adc_resolution, 6)),
                ShiftLeft(shunt_adc_resolution, 3)),
          mode)

\* range << 13 | gain << 11 | bus_adc << 7 | shunt_adc << 3 | mode
EncodeConfig(bus_voltage_range, gain, bus_adc_resolution, shunt_adc_resolution, mode) ==
    BitOr(BitOr(BitOr(BitOr(ShiftLeft(bus_voltage_range, 13),
                            ShiftLeft(gain, 11)),
                      ShiftLeft(bus_adc_resolution, 7)),
                ShiftLeft(shunt_adc_resolution, 3)),
          mode)

Calibration_32V_2A_stale ==
    [_current_lsb |-> 100, _cal_value |-> 4095, _power_lsb |-> 20000]

\* _current_lsb = 0.1 (mA), _cal_value = 4096, _power_lsb = 0.002 (W)
Calibration_32V_2A ==
    [_current_lsb |-> 100, _cal_value |-> 4096, _power_lsb |-> 2000]

Config_32V_2A ==
    EncodeConfig(RANGE_32V, DIV_8_320MV, ADCRES_12BIT_32S, ADCRES_12BIT_32S,
                 SANDBVOLT_CONTINUOUS)

set_calibration_32V_2A_config_first(ctx, self, open, failAt) ==
    LET s1 == [self EXCEPT !._current_lsb = Calibration_32V_2A._current_lsb,
                           !._cal_value   = Calibration_32V_2A._cal_value,
                           !._power_lsb   = Calibration_32V_2A._power_lsb,
                           !.config       = Config_32V_2A]
        c1 == write(ctx, open, s1.addr, _REG_CONFIG, s1.config, failAt)
        c2 == write(c1, open, s1.addr, _REG_CALIBRATION, s1._cal_value, failAt)
    IN  [ctx |-> c2, self |-> s1]

set_calibration_32V_2A_no_config(ctx, self, open, failAt) ==
    LET s1 == [self EXCEPT !._current_lsb = Calibration_32V_2A._current_lsb,
                           !._cal_value   = Calibration_32V_2A._cal_value,
                           !._power_lsb   = Calibration_32V_2A._power_lsb,
                           !.config       = Config_32V_2A]
        c1 == write(ctx, open, s1.addr, _REG_CALIBRATION, s1._cal_value, failAt)
    IN  [ctx |-> c1, self |-> s1]

\* Caches the calibration state, writes the Calibration register, builds
\* the config word and writes the Config register.
set_calibration_32V_2A(ctx, self, open, failAt) ==
    LET s1 == [self EXCEPT !._current_lsb = Calibration_32V_2A._current_lsb,
                           !._cal_value   = Calibration_32V_2A._cal_value,
                           !._power_lsb   = Calibration_32V_2A._power_lsb]
        c1 == write(ctx, open, s1.addr, _REG_CALIBRATION, s1._cal_value, failAt)
        s2 == [s1 EXCEPT !.config = Config_32V_2A]
        c2 == write(c1, open, s2.addr, _REG_CONFIG, s2.config, failAt)
    IN  IF c1.err # "none" THEN [ctx |-> c1, self |-> s1]
        ELSE [ctx |-> c2, self |-> s2]

AddrIsNone_never(a) == FALSE

\* "if self.addr is None"
AddrIsNone(a) == a = None

AddrGiven_never(addr) == FALSE

\* "addr if addr is not None else find_ina219_address(i2c_bus)"
AddrGiven(addr) == addr # None

\* __init__(i2c_bus, addr): the result of the constructor call, with the bus
\* handles it opened.  The object reaches the caller only when err = "none".
UPSCurrentSensor_init(addr, openOk, probeOpenOk, failAt) ==
    LET own   == [by |-> "driver", open |-> TRUE]
        probe == IF AddrGiven(addr)
                 THEN [log |-> <<>>, found |-> addr, err |-> "none", opened |-> <<>>]
                 ELSE find_ina219_address(probeOpenOk)
        self0 == [bus |-> Len(handles) + 1, addr |-> probe.found,
                  _cal_value |-> 0, _current_lsb |-> 0, _power_lsb |-> 0,
                  config |-> None, closeCalled |-> FALSE]
        r     == set_calibration_32V_2A(StartCtx(probe.log), self0, TRUE, failAt)
    IN  IF ~openOk
        THEN [err |-> "RuntimeError: Failed to open I2C bus", self |-> self0, log |-> <<>>,
              found |-> None, opened |-> <<>>]
        ELSE IF probe.err # "none"
        THEN [err |-> probe.err, self |-> self0, log |-> probe.log,
              found |-> None, opened |-> <<own>>]
        ELSE IF AddrIsNone(probe.found)
        THEN [err |-> "RuntimeError: No INA219 device found", self |-> self0, log |-> probe.log,
              found |-> None, opened |-> <<own>> \o probe.opened]
        ELSE [err |-> r.ctx.err, self |-> r.self, log |-> r.ctx.log,
              found |-> probe.found, opened |-> <<own>> \o probe.opened]

\* "if value > 32767: value -= 65535"
Signed(value) == IF value > 32767 THEN value - 65535 ELSE value

get_current_mA_zero_on_error(self, data, failAt) ==
    LET r == read(StartCtx(<<>>), handles[self.bus].open, self.addr,
                  _REG_CURRENT, data, failAt)
    IN  [err |-> "none", log |-> r.ctx.log, raw |-> r.ret,
         ret |-> IF r.ctx.err = "none"
                 THEN <<Signed(r.ret) * self._current_lsb>> ELSE <<0>>]

\* get_current_mA: the Current register, sign-converted, times _current_lsb
get_current_mA(self, data, failAt) ==
    LET r == read(StartCtx(<<>>), handles[self.bus].open, self.addr,
                  _REG_CURRENT, data, failAt)
    IN  [err |-> r.ctx.err, log |-> r.ctx.log, raw |-> r.ret,
         ret |-> IF r.ctx.err = "none"
                 THEN <<Signed(r.ret) * self._current_lsb>> ELSE <<>>]

close_communication_noop(hs, self) == hs

\* close_communication: self.bus.close()
close_communication(hs, self) == [hs EXCEPT ![self.bus].open = FALSE]

\* The two bytes a device sends for the 16-bit word w, high byte first.
DeviceBytes(w) == << w \div 256, w % 256 >>

(***************************************************************************)
(* The record of the operation just executed.                              *)
(*   name     the operation           drv   the driver it ran on / created *)
(*   err      the exception raised    found the address the probe returned *)
(*   log      its bus transactions    raw   the register word it read      *)
(*   ret      the value returned      emitted  the data signals emitted    *)
(***************************************************************************)
OpRecord(name, drv, err, found, log, raw, ret, emitted, initialized) ==
    [name |-> name, drv |-> drv, err |-> err, found |-> found, log |-> log,
     raw |-> raw, ret |-> ret, emitted |-> emitted, initialized |-> initialized]

Emit(signal, data) == [signal |-> signal, data |-> data]

DefaultCfgIn ==
    [bus_voltage_range |-> RANGE_32V, gain |-> DIV_8_320MV,
     bus_adc_resolution |-> ADCRES_12BIT_32S,
     shunt_adc_resolution |-> ADCRES_12BIT_32S, mode |-> SANDBVOLT_CONTINUOUS]


(***************************************************************************)
(* Initial values of the register round trip, of the load voltage plugin   *)
(* and of the concurrent callers.                                          *)
(***************************************************************************)
WordIdle == [v |-> None, bytes |-> <<>>, back |-> None]

LvOpRecord(name, err, reads, decoded, ret, emitted) ==
    [name |-> name, err |-> err, reads |-> reads, decoded |-> decoded,
     ret |-> ret, emitted |-> emitted]

\* ini_attributes of the load voltage plugin: self.controller = None
VoltIdle ==
    [controller |-> "None",
     op |-> LvOpRecord("ini_attributes", "none", <<>>, <<>>, <<>>, <<>>)]

\* a caller that has not called anything yet
\*   ready  its plugin holds a constructed sensor
\*   addr   the address of that sensor
\*   prog   the bus calls of the operation it is executing
\*   i      the next bus call of prog
\*   busy   it is inside bus call i (the call was entered, not yet left)
ThreadIdle ==
    [ready |-> FALSE, addr |-> None, prog |-> <<>>, i |-> 1, busy |-> FALSE]

ConcIdle == [t \in 1..NThreads |-> ThreadIdle]

AuxIdle == word = WordIdle /\ volt = VoltIdle /\ conc = ConcIdle

(***************************************************************************)
(* Initial values of the relay, servo and distance sensor plugins          *)
(* (their ini_attributes and the default values of their params).          *)
(***************************************************************************)
\* VALID_GPIO_PINS, the same list in the three plugins
VALID_GPIO_PINS ==
    {2, 3, 4, 17, 18, 27, 22, 23, 24, 25, 5, 6, 12, 13, 19, 20, 21, 26, 16}

\* the pins the relay settings are given: the default, another valid pin
\* and a pin that is out of the list
RelayPins == {26, 17, 1}

RelayOp(name, err, status, arg) ==
    [name |-> name, err |-> err, status |-> status, arg |-> arg]

\*   pins        RPi.GPIO's channels: "unset" (not set up), "HIGH" or "LOW"
\*               (set up as output and driven at that level)
\*   mode        GPIO.getmode()
\*   relay_pin   self.relay_pin         gpio_relay  self.gpio_relay (its pin)
\*   settings    the params shown to the user
\*   closed      close() has been called
RelayIdle ==
    [pins |-> [p \in RelayPins |-> "unset"], mode |-> "None",
     relay_pin |-> 26, gpio_relay |-> None,
     settings |-> [relay_pin |-> 26, relay_state |-> "OFF"],
     closed |-> FALSE,
     op |-> RelayOp("ini_attributes", "none", "", None)]

ServoOp(name, err, arg, ret) == [name |-> name, err |-> err, arg |-> arg, ret |-> ret]

\* Angles are held in tenths of a degree, the servo's value in 1/900.
\*   controller  self.controller: the ServoWrapper (exists), the value its
\*               servo was last set to, and its current_angle
ServoIdle ==
    [controller |-> [exists |-> FALSE, value |-> 0, current_angle |-> 0],
     settings |-> [gpio_pin |-> 17, home_position |-> 0, default_angle |-> 900],
     op |-> ServoOp("ini_attributes", "none", None, <<>>)]

DistOp(name, err, status, emitted) ==
    [name |-> name, err |-> err, status |-> status, emitted |-> emitted]

NoSensor == [exists |-> FALSE, id |-> 0, trigger_pin |-> 0, echo_pin |-> 0]

\*   controller  self.controller: a DistanceSensorWrapper (the id of its
\*               sensor and its pins) or None
\*   sensors     the gpiozero DistanceSensor objects built so far: closed or not
DistIdle ==
    [controller |-> NoSensor,
     sensors |-> <<>>,
     settings |-> [trigger_pin |-> 27, echo_pin |-> 22],
     op |-> DistOp("ini_attributes", "none", "", <<>>)]

GpioIdle == relay = RelayIdle /\ servo = ServoIdle /\ dist = DistIdle

\* ini_attributes: self.controller = None; nothing opened, nothing on the bus
Init ==
    /\ acks \in AckSets
    /\ is_master \in BOOLEAN
    /\ handles = <<>>
    /\ drivers = <<>>
    /\ controller = None
    /\ lastOp = OpRecord("ini_attributes", None, "none", None, <<>>, None, <<>>, <<>>, FALSE)
    /\ cfgIn = DefaultCfgIn
    /\ cfgWord = None
    /\ AuxIdle
    /\ GpioIdle

\* DAQ_0DViewer_UPSCurrent.ini_detector
ini_detector(openOk, probeOpenOk, failAt) ==
    /\ is_master => (Len(handles) + 2 <= MaxHandles /\ Len(drivers) < MaxDrivers)
    /\ LET r == UPSCurrentSensor_init(None, openOk, probeOpenOk, failAt)
           placeholder == <<Emit("dte_signal_temp", 0)>>
       IN  IF ~is_master
           THEN /\ lastOp' = OpRecord("ini_detector", None, "none", None, <<>>,
                                      None, <<>>, placeholder, TRUE)
                /\ UNCHANGED <<handles, drivers, controller>>
           ELSE IF r.err # "none"
           THEN /\ handles' = handles \o r.opened
                /\ lastOp' = OpRecord("ini_detector", None, r.err, r.found, r.log,
                                      None, <<>>, <<>>, FALSE)
                /\ UNCHANGED <<drivers, controller>>
           ELSE /\ handles' = handles \o r.opened
                /\ drivers' = Append(drivers, r.self)
                /\ controller' = Len(drivers) + 1
                /\ lastOp' = OpRecord("ini_detector", Len(drivers) + 1, "none",
                                      r.found, r.log, None, <<>>, placeholder, TRUE)
    /\ UNCHANGED <<acks, is_master, codecVars, auxVars, gpioVars>>

\* UPSCurrentSensor(addr=a) called by a user of the class that knows the address
UPSCurrentSensor(addr, openOk, failAt) ==
    /\ Len(handles) + 1 <= MaxHandles
    /\ Len(drivers) < MaxDrivers
    /\ LET r == UPSCurrentSensor_init(addr, openOk, TRUE, failAt)
       IN  /\ handles' = handles \o r.opened
           /\ IF r.err # "none"
              THEN /\ lastOp' = OpRecord("UPSCurrentSensor", None, r.err, r.found,
                                         r.log, None, <<>>, <<>>, FALSE)
                   /\ UNCHANGED drivers
              ELSE /\ drivers' = Append(drivers, r.self)
                   /\ lastOp' = OpRecord("UPSCurrentSensor", Len(drivers) + 1,
                                         "none", r.found, r.log, None, <<>>, <<>>, FALSE)
    /\ UNCHANGED <<acks, is_master, controller, codecVars, auxVars, gpioVars>>

\* DAQ_0DViewer_UPSCurrent.grab_data
grab_data(w, failAt) ==
    /\ IF controller = None
       THEN lastOp' = OpRecord("grab_data", None, "AttributeError", None, <<>>,
                               None, <<>>, <<>>, FALSE)
       ELSE LET r == get_current_mA(drivers[controller], DeviceBytes(w), failAt)
            IN  lastOp' = OpRecord("grab_data", controller, r.err, None, r.log,
                                   r.raw, r.ret,
                                   IF r.err = "none"
                                   THEN <<Emit("dte_signal", r.ret[1])>> ELSE <<>>,
                                   FALSE)
    /\ UNCHANGED <<acks, is_master, handles, drivers, controller, codecVars, auxVars, gpioVars>>

\* UPSCurrentSensor.get_current_mA called on any constructed sensor
read_current(d, w, failAt) ==
    /\ LET r == get_current_mA(drivers[d], DeviceBytes(w), failAt)
       IN  lastOp' = OpRecord("get_current_mA", d, r.err, None, r.log, r.raw,
                              r.ret, <<>>, FALSE)
    /\ UNCHANGED <<acks, is_master, handles, drivers, controller, codecVars, auxVars, gpioVars>>

\* DAQ_0DViewer_UPSCurrent.close
close ==
    /\ IF controller # None
       THEN /\ handles' = close_communication(handles, drivers[controller])
            /\ drivers' = [drivers EXCEPT ![controller].closeCalled = TRUE]
       ELSE UNCHANGED <<handles, drivers>>
    /\ lastOp' = OpRecord("close", controller, "none", None, <<>>, None, <<>>, <<>>, FALSE)
    /\ UNCHANGED <<acks, is_master, controller, codecVars, auxVars, gpioVars>>

\* UPSCurrentSensor.close_communication called on any constructed sensor
close_sensor(d) ==
    /\ handles' = close_communication(handles, drivers[d])
    /\ drivers' = [drivers EXCEPT ![d].closeCalled = TRUE]
    /\ lastOp' = OpRecord("close_communication", d, "none", None, <<>>, None, <<>>, <<>>, FALSE)
    /\ UNCHANGED <<acks, is_master, controller, codecVars, auxVars, gpioVars>>

\* DAQ_0DViewer_UPSCurrent.stop: a status message only
stop ==
    /\ lastOp' = OpRecord("stop", None, "none", None, <<>>, None, <<>>, <<>>, FALSE)
    /\ UNCHANGED <<acks, is_master, handles, drivers, controller, codecVars, auxVars, gpioVars>>

Next ==
    \/ \E f \in Faults : ini_detector(f.openOk, f.probeOpenOk, f.failAt)
    \/ \E addr \in ExplicitAddrs, f \in Faults :
          f.probeOpenOk /\ UPSCurrentSensor(addr, f.openOk, f.failAt)
    \/ \E w \in RawWords, failAt \in 0..1 : grab_data(w, failAt)
    \/ \E d \in 1..Len(drivers), w \in RawWords, failAt \in 0..1 :
          read_current(d, w, failAt)
    \/ close
    \/ \E d \in 1..Len(drivers) : close_sensor(d)
    \/ stop

Spec == Init /\ [][Next]_vars

(***************************************************************************)
(* The config word encoder applied to every combination of field values.   *)
(***************************************************************************)
CodecInit ==
    /\ acks = {}
    /\ is_master = TRUE
    /\ handles = <<>>
    /\ drivers = <<>>
    /\ controller = None
    /\ lastOp = OpRecord("ini_attributes", None, "none", None, <<>>, None, <<>>, <<>>, FALSE)
    /\ cfgIn \in [bus_voltage_range : BusVoltageRange, gain : Gain,
                  bus_adc_resolution : ADCResolution,
                  shunt_adc_resolution : ADCResolution, mode : Mode]
    /\ cfgWord = None
    /\ AuxIdle
    /\ GpioIdle

Encode ==
    /\ cfgWord = None
    /\ cfgWord' = EncodeConfig(cfgIn.bus_voltage_range, cfgIn.gain,
                               cfgIn.bus_adc_resolution,
                               cfgIn.shunt_adc_resolution, cfgIn.mode)
    /\ UNCHANGED <<drvVars, cfgIn, auxVars, gpioVars>>

CodecNext == Encode

CodecSpec == CodecInit /\ [][CodecNext]_vars

(***************************************************************************)
(* write followed by read of one register that stores the two bytes it is  *)
(* sent, for every 16-bit value.                                           *)
(***************************************************************************)
WordAddr == 65

WordInit ==
    /\ acks = {WordAddr}
    /\ is_master = TRUE
    /\ handles = <<>>
    /\ drivers = <<>>
    /\ controller = None
    /\ lastOp = OpRecord("ini_attributes", None, "none", None, <<>>, None, <<>>, <<>>, FALSE)
    /\ cfgIn = DefaultCfgIn
    /\ cfgWord = None
    /\ word \in [v : 0..65535, bytes : {<<>>}, back : {None}]
    /\ volt = VoltIdle
    /\ conc = ConcIdle
    /\ GpioIdle

\* self.write(_REG_CALIBRATION, v): the register keeps the bytes of the last
\* block write it acknowledged.
WriteWord ==
    /\ word.bytes = <<>>
    /\ LET c == write(StartCtx(<<>>), TRUE, WordAddr, _REG_CALIBRATION, word.v, 0)
       IN  /\ c.err = "none"
           /\ word' = [word EXCEPT !.bytes = c.log[Len(c.log)].data]
    /\ UNCHANGED <<drvVars, codecVars, volt, conc, gpioVars>>

\* self.read(_REG_CALIBRATION): the register sends the bytes it keeps.
ReadWord ==
    /\ word.bytes # <<>>
    /\ word.back = None
    /\ LET r == read(StartCtx(<<>>), TRUE, WordAddr, _REG_CALIBRATION, word.bytes, 0)
       IN  /\ r.ctx.err = "none"
           /\ word' = [word EXCEPT !.back = r.ret]
    /\ UNCHANGED <<drvVars, codecVars, volt, conc, gpioVars>>

WordNext == WriteWord \/ ReadWord

WordSpec == WordInit /\ [][WordNext]_vars

(***************************************************************************)
(* The load voltage plugin (daq_0Dviewer_UPSLoadVoltage.py) on its         *)
(* INA219Wrapper.  The wrapper's module is not among the sources; its bus  *)
(* voltage read follows the specification's decodeBusVoltage and           *)
(* readBusVoltage_V.  Voltages are held in mV (1 V = 1000).                *)
(***************************************************************************)
BusVoltageWords == {0, 2, 5, 7, 8000, 8002, 8003, 8006, 32002, 65529, 65535}

\* decodeBusVoltage: bit 0 overflow, bit 1 conversion ready, bits 3-15 the
\* voltage in units of 4 mV
decodeBusVoltage(raw) ==
    [voltage_mV       |-> ShiftRight(raw, 3) * 4,
     conversion_ready |-> BitAnd(raw, 2) # 0,
     overflow         |-> BitAnd(raw, 1) # 0]

\* readBusVoltage_V: reads the Bus Voltage register; when the word read is
\* not conversion-ready, reads it once more; returns the voltage field of
\* the last word read (a second unready word is returned or refused, the
\* specification allows both).
getBusVoltage_V(open, w1, w2, failAt, onUnready) ==
    LET r1 == read(StartCtx(<<>>), open, WordAddr, _REG_BUSVOLTAGE, DeviceBytes(w1), failAt)
        d1 == decodeBusVoltage(w1)
        r2 == read(r1.ctx, open, WordAddr, _REG_BUSVOLTAGE, DeviceBytes(w2), failAt)
        d2 == decodeBusVoltage(w2)
    IN  IF r1.ctx.err # "none"
        THEN [err |-> r1.ctx.err, log |-> r1.ctx.log, decoded |-> <<>>, ret |-> <<>>]
        ELSE IF d1.conversion_ready
        THEN [err |-> "none", log |-> r1.ctx.log, decoded |-> <<d1>>,
              ret |-> <<d1.voltage_mV>>]
        ELSE IF r2.ctx.err # "none"
        THEN [err |-> r2.ctx.err, log |-> r2.ctx.log, decoded |-> <<d1>>, ret |-> <<>>]
        ELSE IF ~d2.conversion_ready /\ onUnready = "error"
        THEN [err |-> "BusIOError", log |-> r2.ctx.log, decoded |-> <<d1, d2>>,
              ret |-> <<>>]
        ELSE [err |-> "none", log |-> r2.ctx.log, decoded |-> <<d1, d2>>,
              ret |-> <<d2.voltage_mV>>]

UPSLoadVoltage_emit_placeholder(bus_voltage_V) == <<Emit("dte_signal", 0)>>

\* y_data = np.array([bus_voltage_V]); self.dte_signal.emit(...)
UPSLoadVoltage_emit(bus_voltage_V) == <<Emit("dte_signal", bus_voltage_V)>>

VoltInit ==
    /\ acks = {WordAddr}
    /\ is_master \in BOOLEAN
    /\ handles = <<>>
    /\ drivers = <<>>
    /\ controller = None
    /\ lastOp = OpRecord("ini_attributes", None, "none", None, <<>>, None, <<>>, <<>>, FALSE)
    /\ cfgIn = DefaultCfgIn
    /\ cfgWord = None
    /\ word = WordIdle
    /\ volt = VoltIdle
    /\ conc = ConcIdle
    /\ GpioIdle

\* ini_detector: a master builds its INA219Wrapper (an exception of the
\* constructor leaves the plugin as it was); the placeholder 0 is emitted.
UPSLoadVoltage_ini_detector(initOk) ==
    /\ IF is_master /\ ~initOk
       THEN volt' = [volt EXCEPT !.op = LvOpRecord("ini_detector", "RuntimeError",
                                                   <<>>, <<>>, <<>>, <<>>)]
       ELSE volt' = [controller |-> IF is_master THEN "ready" ELSE volt.controller,
                     op |-> LvOpRecord("ini_detector", "none", <<>>, <<>>, <<>>,
                                       <<Emit("dte_signal_temp", 0)>>)]
    /\ UNCHANGED <<drvVars, codecVars, word, conc, gpioVars>>

\* grab_data: bus_voltage_V = self.controller.getBusVoltage_V(), emitted on
\* dte_signal; an exception leaves before the emit.
UPSLoadVoltage_grab_data(w1, w2, failAt, onUnready) ==
    /\ IF volt.controller = "None"
       THEN volt' = [volt EXCEPT !.op = LvOpRecord("grab_data", "AttributeError",
                                                   <<>>, <<>>, <<>>, <<>>)]
       ELSE LET r == getBusVoltage_V(volt.controller = "ready", w1, w2, failAt, onUnready)
            IN  volt' = [volt EXCEPT !.op =
                    LvOpRecord("grab_data", r.err, r.log, r.decoded, r.ret,
                               IF r.err = "none" THEN UPSLoadVoltage_emit(r.ret[1])
                               ELSE <<>>)]
    /\ UNCHANGED <<drvVars, codecVars, word, conc, gpioVars>>

UPSLoadVoltage_stop ==
    /\ volt' = [volt EXCEPT !.op = LvOpRecord("stop", "none", <<>>, <<>>, <<>>, <<>>)]
    /\ UNCHANGED <<drvVars, codecVars, word, conc, gpioVars>>

\* close: if self.controller: self.controller.close_communication()
UPSLoadVoltage_close ==
    /\ volt' = [controller |-> IF volt.controller # "None" THEN "closed" ELSE "None",
                op |-> LvOpRecord("close", "none", <<>>, <<>>, <<>>, <<>>)]
    /\ UNCHANGED <<drvVars, codecVars, word, conc, gpioVars>>

VoltNext ==
    \/ \E initOk \in BOOLEAN : UPSLoadVoltage_ini_detector(initOk)
    \/ \E w1, w2 \in BusVoltageWords, failAt \in 0..2, onUnready \in {"return", "error"} :
          UPSLoadVoltage_grab_data(w1, w2, failAt, onUnready)
    \/ UPSLoadVoltage_stop
    \/ UPSLoadVoltage_close

VoltSpec == VoltInit /\ [][VoltNext]_vars

(***************************************************************************)
(* Plugins whose operations are run by different threads of the host, each *)
(* on a sensor of its own, all on one bus.  read and write enter the smbus *)
(* call without taking any lock; a thread is between BeginCall and EndCall *)
(* while it is inside such a call.                                         *)
(***************************************************************************)
ConcInit ==
    /\ acks = {WordAddr}
    /\ is_master = TRUE
    /\ handles = <<>>
    /\ drivers = <<>>
    /\ controller = None
    /\ lastOp = OpRecord("ini_attributes", None, "none", None, <<>>, None, <<>>, <<>>, FALSE)
    /\ cfgIn = DefaultCfgIn
    /\ cfgWord = None
    /\ word = WordIdle
    /\ volt = VoltIdle
    /\ conc = ConcIdle
    /\ GpioIdle

\* thread t enters ini_detector: the bus calls of UPSCurrentSensor()
StartIniDetector(t) ==
    /\ conc[t].prog = <<>>
    /\ ~conc[t].ready
    /\ LET r == UPSCurrentSensor_init(None, TRUE, TRUE, 0)
       IN  /\ r.err = "none"
           /\ conc' = [conc EXCEPT ![t].prog = r.log, ![t].i = 1,
                                   ![t].addr = r.self.addr]
    /\ UNCHANGED <<drvVars, codecVars, word, volt, gpioVars>>

\* thread t enters grab_data: the bus call of get_current_mA
StartGrabData(t, w) ==
    /\ conc[t].prog = <<>>
    /\ conc[t].ready
    /\ conc' = [conc EXCEPT
                  ![t].prog = read(StartCtx(<<>>), TRUE, conc[t].addr, _REG_CURRENT,
                                   DeviceBytes(w), 0).ctx.log,
                  ![t].i = 1]
    /\ UNCHANGED <<drvVars, codecVars, word, volt, gpioVars>>

\* thread t calls self.bus.write_quick / read_i2c_block_data /
\* write_i2c_block_data; nothing in the code makes it wait for another thread
BeginCall(t) ==
    /\ conc[t].prog # <<>>
    /\ ~conc[t].busy
    /\ conc' = [conc EXCEPT ![t].busy = TRUE]
    /\ UNCHANGED <<drvVars, codecVars, word, volt, gpioVars>>

\* the call of thread t returns; after the last call the operation returns
EndCall(t) ==
    /\ conc[t].busy
    /\ conc' = IF conc[t].i = Len(conc[t].prog)
               THEN [conc EXCEPT ![t].busy = FALSE, ![t].prog = <<>>, ![t].i = 1,
                                 ![t].ready = TRUE]
               ELSE [conc EXCEPT ![t].busy = FALSE, ![t].i = conc[t].i + 1]
    /\ UNCHANGED <<drvVars, codecVars, word, volt, gpioVars>>

ConcNext ==
    \E t \in 1..NThreads :
        \/ StartIniDetector(t)
        \/ \E w \in RawWords : StartGrabData(t, w)
        \/ BeginCall(t)
        \/ EndCall(t)

ConcSpec == ConcInit /\ [][ConcNext]_vars

(***************************************************************************)
(* The relay plugin (daq_move_Relay.py): GPIORelayWrapper on RPi.GPIO and  *)
(* DAQ_Move_Relay.  The relay is active low: LOW is ON.                    *)
(***************************************************************************)
\* values handed to move_abs, in tenths (15 is 1.5)
MoveValues == {-5, 0, 10, 15, 20}

\* int(x) of a value held in tenths: truncation toward zero
IntOf(v10) == IF v10 >= 0 THEN v10 \div 10 ELSE -((-v10) \div 10)

\* GPIO.cleanup(pin): the channel goes back to not set up
GPIO_cleanup(pins, pin) == [pins EXCEPT ![pin] = "unset"]

\* GPIO.output(pin, level) raises on a channel that is not set up as output
GPIO_output(pins, pin, level) ==
    IF pins[pin] = "unset"
    THEN [pins |-> pins, err |-> "RuntimeError"]
    ELSE [pins |-> [pins EXCEPT ![pin] = level], err |-> "none"]

\* _setup_gpio: setmode if needed, cleanup(pin), setup(pin, OUT, initial=HIGH);
\* setupOk is whether GPIO.setup succeeds
_setup_gpio(r, pin, setupOk) ==
    LET cleaned == GPIO_cleanup(r.pins, pin)
    IN  [pins |-> IF setupOk THEN [cleaned EXCEPT ![pin] = "HIGH"] ELSE cleaned,
         mode |-> "BCM",
         err  |-> IF setupOk THEN "none" ELSE "RuntimeError"]

\* get_state: int(not GPIO.input(pin)); None stands for the exception that
\* GPIO.input raises on a channel that is not set up
get_state(pins, pin) ==
    IF pins[pin] = "unset" THEN None ELSE IF pins[pin] = "LOW" THEN 1 ELSE 0

\* set_state: GPIO.output(pin, LOW if state == 1 else HIGH)
set_state(pins, pin, state) ==
    GPIO_output(pins, pin, IF state = 1 THEN "LOW" ELSE "HIGH")

RelayInit ==
    /\ acks = {}
    /\ is_master = TRUE
    /\ handles = <<>>
    /\ drivers = <<>>
    /\ controller = None
    /\ lastOp = OpRecord("ini_attributes", None, "none", None, <<>>, None, <<>>, <<>>, FALSE)
    /\ cfgIn = DefaultCfgIn
    /\ cfgWord = None
    /\ AuxIdle
    /\ GpioIdle

\* ini_stage: builds the wrapper when there is none, then set_state(0);
\* nothing is caught
Relay_ini_stage(setupOk) ==
    /\ LET g  == IF relay.gpio_relay = None
                 THEN _setup_gpio(relay, relay.relay_pin, setupOk)
                 ELSE [pins |-> relay.pins, mode |-> relay.mode, err |-> "none"]
           o  == set_state(g.pins, relay.relay_pin, 0)
       IN  IF g.err # "none"
           THEN relay' = [relay EXCEPT !.pins = g.pins, !.mode = g.mode,
                              !.op = RelayOp("ini_stage", g.err, "", None)]
           ELSE relay' = [relay EXCEPT !.pins = o.pins, !.mode = g.mode,
                              !.gpio_relay = relay.relay_pin,
                              !.op = RelayOp("ini_stage", o.err, "", None)]
    /\ UNCHANGED <<drvVars, codecVars, auxVars, servo, dist>>

\* move_abs: value = int(value.value()); set_state(value); then the
\* relay_state setting is updated
Relay_move_abs(v10) ==
    /\ IF relay.gpio_relay = None
       THEN relay' = [relay EXCEPT !.op = RelayOp("move_abs", "AttributeError", "", v10)]
       ELSE LET value == IntOf(v10)
                o == set_state(relay.pins, relay.gpio_relay, value)
                state_str == IF value = 1 THEN "ON" ELSE "OFF"
            IN  IF o.err # "none"
                THEN relay' = [relay EXCEPT !.op = RelayOp("move_abs", o.err, "", v10)]
                ELSE relay' = [relay EXCEPT !.pins = o.pins,
                                   !.settings.relay_state = state_str,
                                   !.op = RelayOp("move_abs", "none", "Relay turned", v10)]
    /\ UNCHANGED <<drvVars, codecVars, auxVars, servo, dist>>

\* move_home: set_state(0), relay_state setting 'OFF'
move_home_result(r, name) ==
    IF r.gpio_relay = None
    THEN [r EXCEPT !.op = RelayOp(name, "AttributeError", "", None)]
    ELSE LET o == set_state(r.pins, r.gpio_relay, 0)
         IN  IF o.err # "none"
             THEN [r EXCEPT !.op = RelayOp(name, o.err, "", None)]
             ELSE [r EXCEPT !.pins = o.pins, !.settings.relay_state = "OFF",
                            !.op = RelayOp(name, "none", "Relay moved to HOME (OFF)", None)]

Relay_move_home ==
    /\ relay' = move_home_result(relay, "move_home")
    /\ UNCHANGED <<drvVars, codecVars, auxVars, servo, dist>>

\* stop_motion: self.move_home()
Relay_stop_motion ==
    /\ relay' = move_home_result(relay, "stop_motion")
    /\ UNCHANGED <<drvVars, codecVars, auxVars, servo, dist>>

IsValidPin_any(pin) == TRUE

\* "new_pin not in VALID_GPIO_PINS"
IsValidPin(pin) == pin \in VALID_GPIO_PINS

\* commit_settings for relay_pin (the setting already holds new_pin): an
\* invalid pin is refused; a different valid pin: cleanup of the present
\* wrapper, then a new wrapper, then self.relay_pin; any exception is caught
Relay_commit_relay_pin(new_pin, setupOk) ==
    /\ LET r0 == [relay EXCEPT !.settings.relay_pin = new_pin]
           cleaned == IF relay.gpio_relay # None
                      THEN GPIO_cleanup(relay.pins, relay.gpio_relay) ELSE relay.pins
           g == _setup_gpio([relay EXCEPT !.pins = cleaned], new_pin, setupOk)
       IN  IF ~IsValidPin(new_pin)
           THEN relay' = [r0 EXCEPT !.op = RelayOp("commit_settings(relay_pin)", "none",
                                                   "Invalid GPIO pin", new_pin)]
           ELSE IF new_pin = relay.relay_pin
           THEN relay' = [r0 EXCEPT !.op = RelayOp("commit_settings(relay_pin)", "none",
                                                   "", new_pin)]
           ELSE IF g.err # "none"
           THEN relay' = [r0 EXCEPT !.pins = g.pins, !.mode = g.mode,
                              !.op = RelayOp("commit_settings(relay_pin)", "none",
                                             "Failed to update relay pin", new_pin)]
           ELSE relay' = [r0 EXCEPT !.pins = g.pins, !.mode = g.mode,
                              !.gpio_relay = new_pin, !.relay_pin = new_pin,
                              !.op = RelayOp("commit_settings(relay_pin)", "none",
                                             "Relay pin updated", new_pin)]
    /\ UNCHANGED <<drvVars, codecVars, auxVars, servo, dist>>

\* commit_settings for relay_state (the setting already holds new_state):
\* set_state when there is a wrapper; an exception is caught
Relay_commit_relay_state(new_state) ==
    /\ LET r0 == [relay EXCEPT !.settings.relay_state = new_state]
           state_int == IF new_state = "ON" THEN 1 ELSE 0
           o == IF relay.gpio_relay # None
                THEN set_state(relay.pins, relay.gpio_relay, state_int)
                ELSE [pins |-> relay.pins, err |-> "none"]
       IN  relay' = [r0 EXCEPT !.pins = o.pins,
                         !.op = RelayOp("commit_settings(relay_state)", "none",
                                        IF o.err = "none" THEN "Relay state changed"
                                        ELSE "Error setting relay state", new_state)]
    /\ UNCHANGED <<drvVars, codecVars, auxVars, servo, dist>>

\* close: cleanup of the wrapper's pin; the wrapper stays referenced
Relay_close ==
    /\ relay' = [relay EXCEPT
                   !.pins = IF relay.gpio_relay # None
                            THEN GPIO_cleanup(relay.pins, relay.gpio_relay) ELSE relay.pins,
                   !.closed = TRUE,
                   !.op = RelayOp("close", "none", "GPIO cleanup done", None)]
    /\ UNCHANGED <<drvVars, codecVars, auxVars, servo, dist>>

RelayNext ==
    \/ \E setupOk \in BOOLEAN : Relay_ini_stage(setupOk)
    \/ \E v10 \in MoveValues : Relay_move_abs(v10)
    \/ Relay_move_home
    \/ Relay_stop_motion
    \/ \E new_pin \in RelayPins, setupOk \in BOOLEAN : Relay_commit_relay_pin(new_pin, setupOk)
    \/ \E new_state \in {"OFF", "ON"} : Relay_commit_relay_state(new_state)
    \/ Relay_close

RelaySpec == RelayInit /\ [][RelayNext]_vars

(***************************************************************************)
(* The servo plugin (daq_move_Servo.py): ServoWrapper and DAQ_Move_Servo.  *)
(* Angles in tenths of a degree; the servo's value v is held as 900 v, so  *)
(* that angle / 90 - 1 is angle - 900.                                     *)
(***************************************************************************)
ServoAngles == {-1, 0, 450, 900, 1800, 1801}
ServoDeltas == {-450, 450, 1800}

\* servo_value = (angle / 90) - 1
ServoValue(angle) == angle - 900

\* ServoWrapper.__init__: the Servo is built without initial_value, so it
\* starts at its mid-point (value 0); current_angle = default_angle.  initOk
\* is whether PiGPIOFactory() and Servo() succeed.
ServoWrapper_init(default_angle, initOk) ==
    IF initOk
    THEN [err |-> "none",
          self |-> [exists |-> TRUE, value |-> 0, current_angle |-> default_angle]]
    ELSE [err |-> "RuntimeError", self |-> ServoIdle.controller]

\* move_to_angle: ValueError outside [0, 180]; the assignment to servo.value
\* (hwOk: it succeeds) comes before the one to current_angle
move_to_angle(self, angle, hwOk) ==
    IF ~(0 <= angle /\ angle <= 1800)
    THEN [err |-> "ValueError", self |-> self]
    ELSE IF ~hwOk
    THEN [err |-> "RuntimeError", self |-> self]
    ELSE [err |-> "none",
          self |-> [self EXCEPT !.value = ServoValue(angle), !.current_angle = angle]]

get_current_angle(self) == self.current_angle

\* DAQ_Move_base.check_bound with the bounds setting off (its default)
check_bound(position) == position

ServoInit ==
    /\ acks = {}
    /\ is_master = TRUE
    /\ handles = <<>>
    /\ drivers = <<>>
    /\ controller = None
    /\ lastOp = OpRecord("ini_attributes", None, "none", None, <<>>, None, <<>>, <<>>, FALSE)
    /\ cfgIn = DefaultCfgIn
    /\ cfgWord = None
    /\ AuxIdle
    /\ relay = RelayIdle
    /\ dist = DistIdle
    /\ \E pin \in {17, 1}, d \in {900, 450} :
          servo = [ServoIdle EXCEPT !.settings.gpio_pin = pin,
                                    !.settings.default_angle = d]

\* the plugin's move: RuntimeError is caught and reported, anything else
\* (ValueError, AttributeError on a missing controller) leaves the method
ServoMove(name, arg, angle, hwOk) ==
    IF ~servo.controller.exists
    THEN [servo EXCEPT !.op = ServoOp(name, "AttributeError", arg, <<>>)]
    ELSE LET m == move_to_angle(servo.controller, angle, hwOk)
         IN  [servo EXCEPT !.controller = m.self,
                           !.op = ServoOp(name,
                                          IF m.err = "RuntimeError" THEN "none" ELSE m.err,
                                          arg,
                                          IF m.err = "none" THEN <<"moved">>
                                          ELSE IF m.err = "RuntimeError" THEN <<"error">>
                                          ELSE <<>>)]

\* ini_stage: invalid pin refused; ServoWrapper(...) then move_to_angle(default)
\* inside one try that catches RuntimeError
Servo_ini_stage(initOk, hwOk) ==
    /\ LET w == ServoWrapper_init(servo.settings.default_angle, initOk)
           m == move_to_angle(w.self, servo.settings.default_angle, hwOk)
       IN  IF servo.settings.gpio_pin \notin VALID_GPIO_PINS
           THEN servo' = [servo EXCEPT !.op = ServoOp("ini_stage", "none", None, <<FALSE>>)]
           ELSE IF w.err # "none"
           THEN servo' = [servo EXCEPT !.op = ServoOp("ini_stage", "none", None, <<FALSE>>)]
           ELSE servo' = [servo EXCEPT !.controller = m.self,
                              !.op = ServoOp("ini_stage", "none", None, <<m.err = "none">>)]
    /\ UNCHANGED <<drvVars, codecVars, auxVars, relay, dist>>

Servo_move_abs(angle, hwOk) ==
    /\ servo' = ServoMove("move_abs", angle, check_bound(angle), hwOk)
    /\ UNCHANGED <<drvVars, codecVars, auxVars, relay, dist>>

Servo_move_rel(delta, hwOk) ==
    /\ servo' = ServoMove("move_rel", check_bound(get_current_angle(servo.controller) + delta),
                          check_bound(get_current_angle(servo.controller) + delta), hwOk)
    /\ UNCHANGED <<drvVars, codecVars, auxVars, relay, dist>>

Servo_move_home(hwOk) ==
    /\ servo' = ServoMove("move_home", servo.settings.home_position,
                          servo.settings.home_position, hwOk)
    /\ UNCHANGED <<drvVars, codecVars, auxVars, relay, dist>>

\* stop_motion: move_to_angle(get_current_angle()), nothing caught
Servo_stop_motion(hwOk) ==
    /\ IF ~servo.controller.exists
       THEN servo' = [servo EXCEPT !.op = ServoOp("stop_motion", "AttributeError", None, <<>>)]
       ELSE LET m == move_to_angle(servo.controller, get_current_angle(servo.controller), hwOk)
            IN  servo' = [servo EXCEPT !.controller = m.self,
                               !.op = ServoOp("stop_motion", m.err,
                                              get_current_angle(servo.controller), <<>>)]
    /\ UNCHANGED <<drvVars, codecVars, auxVars, relay, dist>>

Servo_get_actuator_value ==
    /\ IF ~servo.controller.exists
       THEN servo' = [servo EXCEPT !.op = ServoOp("get_actuator_value", "AttributeError",
                                                  None, <<>>)]
       ELSE servo' = [servo EXCEPT !.op = ServoOp("get_actuator_value", "none", None,
                                                  <<get_current_angle(servo.controller)>>)]
    /\ UNCHANGED <<drvVars, codecVars, auxVars, relay, dist>>

ServoNext ==
    \/ \E initOk, hwOk \in BOOLEAN : Servo_ini_stage(initOk, hwOk)
    \/ \E angle \in ServoAngles, hwOk \in BOOLEAN : Servo_move_abs(angle, hwOk)
    \/ \E delta \in ServoDeltas, hwOk \in BOOLEAN : Servo_move_rel(delta, hwOk)
    \/ \E hwOk \in BOOLEAN : Servo_move_home(hwOk)
    \/ \E hwOk \in BOOLEAN : Servo_stop_motion(hwOk)
    \/ Servo_get_actuator_value

ServoSpec == ServoInit /\ [][ServoNext]_vars

(***************************************************************************)
(* The 0D distance sensor plugin (daq_0Dviewer_DistanceSensor.py):         *)
(* DistanceSensorWrapper and DAQ_0DViewer_DistanceSensor, as master.       *)
(***************************************************************************)
TriggerPins == {27, 17, 1}
EchoPins == {22, 18, 1}

\* DistanceSensorWrapper(*args): __init__ takes trigger_pin, echo_pin and
\* max_distance, none with a default, so a call with another number of
\* arguments raises TypeError; initOk is whether PiGPIOFactory() and
\* DistanceSensor() succeed.  The new sensor gets the next id.
DistanceSensorWrapper(d, args, initOk) ==
    IF Len(args) # 3
    THEN [err |-> "TypeError", self |-> NoSensor, sensors |-> d.sensors]
    ELSE IF ~initOk
    THEN [err |-> "RuntimeError", self |-> NoSensor, sensors |-> d.sensors]
    ELSE [err |-> "none",
          self |-> [exists |-> TRUE, id |-> Len(d.sensors) + 1,
                    trigger_pin |-> args[1], echo_pin |-> args[2]],
          sensors |-> Append(d.sensors, [closed |-> FALSE])]

\* close_communication: self.sensor.close()
Dist_close_communication(sensors, self) == [sensors EXCEPT ![self.id].closed = TRUE]

\* get_distance: reading a closed sensor raises
get_distance(sensors, self) ==
    IF sensors[self.id].closed THEN [err |-> "DeviceClosed", ret |-> <<>>]
    ELSE [err |-> "none", ret |-> <<"distance">>]

DistInit ==
    /\ acks = {}
    /\ is_master = TRUE
    /\ handles = <<>>
    /\ drivers = <<>>
    /\ controller = None
    /\ lastOp = OpRecord("ini_attributes", None, "none", None, <<>>, None, <<>>, <<>>, FALSE)
    /\ cfgIn = DefaultCfgIn
    /\ cfgWord = None
    /\ AuxIdle
    /\ GpioIdle

\* ini_detector of a master: ValueError on invalid pins, then the wrapper
\* with the three settings (its RuntimeError is not caught), the placeholder
\* and True
Dist_ini_detector(initOk) ==
    /\ Len(dist.sensors) < MaxSensors
    /\ LET s == dist.settings
           w == DistanceSensorWrapper(dist, <<s.trigger_pin, s.echo_pin, "max_distance">>, initOk)
       IN  IF s.trigger_pin \notin VALID_GPIO_PINS \/ s.echo_pin \notin VALID_GPIO_PINS
           THEN dist' = [dist EXCEPT !.op = DistOp("ini_detector", "ValueError", "", <<>>)]
           ELSE IF w.err # "none"
           THEN dist' = [dist EXCEPT !.op = DistOp("ini_detector", w.err, "", <<>>)]
           ELSE dist' = [dist EXCEPT !.controller = w.self, !.sensors = w.sensors,
                             !.op = DistOp("ini_detector", "none", "initialized",
                                           <<Emit("dte_signal_temp", 0)>>)]
    /\ UNCHANGED <<drvVars, codecVars, auxVars, relay, servo>>

\* commit_settings for trigger_pin / echo_pin (the setting already holds the
\* new value): invalid pins are refused; the present sensor is closed; a new
\* wrapper is built from (new_trigger, new_echo); any exception is caught
Dist_commit_settings(param, value, initOk) ==
    /\ Len(dist.sensors) < MaxSensors
    /\ LET s == [dist.settings EXCEPT ![param] = value]
           closed == IF dist.controller.exists
                     THEN Dist_close_communication(dist.sensors, dist.controller)
                     ELSE dist.sensors
           w == DistanceSensorWrapper([dist EXCEPT !.sensors = closed],
                                      <<s.trigger_pin, s.echo_pin>>, initOk)
       IN  IF s.trigger_pin \notin VALID_GPIO_PINS \/ s.echo_pin \notin VALID_GPIO_PINS
           THEN dist' = [dist EXCEPT !.settings = s,
                             !.op = DistOp("commit_settings", "none", "Invalid GPIO pins", <<>>)]
           ELSE IF w.err # "none"
           THEN dist' = [dist EXCEPT !.settings = s, !.sensors = closed,
                             !.op = DistOp("commit_settings", "none",
                                           "Failed to update sensor", <<>>)]
           ELSE dist' = [dist EXCEPT !.settings = s, !.sensors = w.sensors,
                             !.controller = w.self,
                             !.op = DistOp("commit_settings", "none", "Sensor updated", <<>>)]
    /\ UNCHANGED <<drvVars, codecVars, auxVars, relay, servo>>

\* grab_data: self.controller.get_distance(), emitted on dte_signal
Dist_grab_data ==
    /\ IF ~dist.controller.exists
       THEN dist' = [dist EXCEPT !.op = DistOp("grab_data", "AttributeError", "", <<>>)]
       ELSE LET r == get_distance(dist.sensors, dist.controller)
            IN  dist' = [dist EXCEPT !.op =
                    DistOp("grab_data", r.err, "",
                           IF r.err = "none" THEN <<Emit("dte_signal", r.ret[1])>> ELSE <<>>)]
    /\ UNCHANGED <<drvVars, codecVars, auxVars, relay, servo>>

\* close: if self.controller: self.controller.close_communication()
Dist_close ==
    /\ dist' = [dist EXCEPT
                  !.sensors = IF dist.controller.exists
                              THEN Dist_close_communication(dist.sensors, dist.controller)
                              ELSE dist.sensors,
                  !.op = DistOp("close", "none", "Distance Sensor closed.", <<>>)]
    /\ UNCHANGED <<drvVars, codecVars, auxVars, relay, servo>>

Dist_stop ==
    /\ dist' = [dist EXCEPT !.op = DistOp("stop", "none", "Acquisition stopped.", <<>>)]
    /\ UNCHANGED <<drvVars, codecVars, auxVars, relay, servo>>

DistNext ==
    \/ \E initOk \in BOOLEAN : Dist_ini_detector(initOk)
    \/ \E value \in TriggerPins, initOk \in BOOLEAN :
          Dist_commit_settings("trigger_pin", value, initOk)
    \/ \E value \in EchoPins, initOk \in BOOLEAN :
          Dist_commit_settings("echo_pin", value, initOk)
    \/ Dist_grab_data
    \/ Dist_close
    \/ Dist_stop

DistSpec == DistInit /\ [][DistNext]_vars

(***************************************************************************)
(* Properties.                                                             *)
(***************************************************************************)
IsConstruct(op) == op.name \in {"ini_detector", "UPSCurrentSensor"}
IsRead(op) == op.name \in {"grab_data", "get_current_mA"}
Created(op) == IsConstruct(op) /\ op.err = "none" /\ op.drv # None

QuickWrites(log) == SelectSeq(log, LAMBDA t : t.op = "quick")
RegWrites(log) == SelectSeq(log, LAMBDA t : t.op = "write")
RegAccesses(log) == SelectSeq(log, LAMBDA t : t.op \in {"write", "read"})
WritesTo(log, reg) == SelectSeq(log, LAMBDA t : t.op = "write" /\ t.reg = reg)

TwosComplement16(raw) == IF raw >= 32768 THEN raw - 65536 ELSE raw
ValidProbeRange == 3..118
Lowest(S) == CHOOSE a \in S : \A b \in S : a <= b

\* C1: every successful read of the Current register returns the raw word
\* reinterpreted as a 16-bit twos-complement value (raw >= 32768 becomes
\* raw - 65536), scaled by the cached current LSB.
C1_TwosComplement ==
    (IsRead(lastOp) /\ lastOp.err = "none") =>
        lastOp.ret = <<TwosComplement16(lastOp.raw) * drivers[lastOp.drv]._current_lsb>>

C3_OneTransactionPerWrite ==
    Created(lastOp) =>
        /\ Len(RegWrites(lastOp.log)) = 2
        /\ Len(WritesTo(lastOp.log, _REG_CALIBRATION)) = 1
        /\ Len(WritesTo(lastOp.log, _REG_CONFIG)) = 1

\* C4: in every configuration step each Config write is preceded by a
\* Calibration write and followed by none.
C4_CalibrationBeforeConfig ==
    \A i \in 1..Len(lastOp.log) :
        (lastOp.log[i].op = "write" /\ lastOp.log[i].reg = _REG_CONFIG) =>
            /\ \E j \in 1..(i - 1) :
                  lastOp.log[j].op = "write" /\ lastOp.log[j].reg = _REG_CALIBRATION
            /\ \A k \in (i + 1)..Len(lastOp.log) :
                  ~(lastOp.log[k].op = "write" /\ lastOp.log[k].reg = _REG_CALIBRATION)

C4_Witness ==
    /\ Created(lastOp)
    /\ WritesTo(lastOp.log, _REG_CALIBRATION) # <<>>
    /\ WritesTo(lastOp.log, _REG_CONFIG) # <<>>

\* C5: the probe issues one zero-length quick write per address, at 0x03,
\* 0x04, ... in ascending order, stops at the lowest acknowledging address
\* of [0x03, 0x76] and returns it; with none it probes all 116 addresses
\* once and returns None.  A construction without address always probes.
C5_ProbeLowestAscending ==
    LET q == QuickWrites(lastOp.log)
        responders == acks \cap ValidProbeRange
    IN  /\ (lastOp.name = "ini_detector" /\ is_master
              /\ lastOp.err \in {"none", "IOError", "RuntimeError: No INA219 device found"})
           => q # <<>>
        /\ q # <<>> =>
            /\ \A i \in 1..Len(q) :
                  /\ q[i].addr = 3 + (i - 1)
                  /\ q[i].data = <<>>
                  /\ q[i].ok = (q[i].addr \in acks)
            /\ IF responders = {}
               THEN Len(q) = 116 /\ q[Len(q)].addr = 118 /\ lastOp.found = None
               ELSE /\ lastOp.found = Lowest(responders)
                    /\ q[Len(q)].addr = Lowest(responders)

C5_Witness ==
    /\ lastOp.name = "ini_detector"
    /\ acks = {65}
    /\ lastOp.found = 65
    /\ Len(QuickWrites(lastOp.log)) = 63

\* C6: a construction in which a Calibration or Config write fails raises,
\* hands no sensor to anyone (the set of constructed sensors and the
\* plugin's controller are unchanged), issues nothing after the failed
\* transaction, and writes no Config register after a failed Calibration
\* write.
FailedWrite(op) ==
    \E i \in 1..Len(op.log) : op.log[i].op = "write" /\ ~op.log[i].ok

C6_FailedInitNotReady ==
    [][ (IsConstruct(lastOp') /\ FailedWrite(lastOp')) =>
          LET log == lastOp'.log
              n   == Len(log)
          IN  /\ lastOp'.err \in {"OSError", "IOError"}
              /\ lastOp'.drv = None
              /\ ~lastOp'.initialized
              /\ lastOp'.emitted = <<>>
              /\ drivers' = drivers
              /\ controller' = controller
              /\ log[n].op = "write" /\ ~log[n].ok
              /\ \A i \in 1..(n - 1) : log[i].op = "write" => log[i].ok
              /\ log[n].reg = _REG_CALIBRATION => WritesTo(log, _REG_CONFIG) = <<>>
      ]_vars

C6_Witness ==
    /\ IsConstruct(lastOp)
    /\ FailedWrite(lastOp)
    /\ lastOp.log[Len(lastOp.log)].reg = _REG_CALIBRATION
    /\ lastOp.err = "IOError"

\* C7: a construction without address on a bus where no address of
\* [0x03, 0x76] acknowledges raises the device-not-found error, issues no
\* register read or write, and hands no sensor to anyone.
C7_NoDeviceNoRegisterAccess ==
    [][ (lastOp'.name = "ini_detector" /\ QuickWrites(lastOp'.log) # <<>>
           /\ acks \cap ValidProbeRange = {}) =>
          /\ lastOp'.err = "RuntimeError: No INA219 device found"
          /\ RegAccesses(lastOp'.log) = <<>>
          /\ lastOp'.drv = None
          /\ ~lastOp'.initialized
          /\ drivers' = drivers
          /\ controller' = controller
      ]_vars

C7_Witness ==
    /\ lastOp.name = "ini_detector"
    /\ acks = {2, 119}
    /\ lastOp.err = "RuntimeError: No INA219 device found"
    /\ Len(lastOp.log) = 116

\* C8: for every combination of valid field values the config word gives
\* back each field at its offset and width (13/1, 11/2, 7/4, 3/4, 0/3), is
\* the sum of the shifted fields (no field touches another's bits) and has
\* bits 14 and 15 clear.
C8_ConfigRoundTrip ==
    cfgWord # None =>
        /\ (cfgWord \div 8192) % 2  = cfgIn.bus_voltage_range
        /\ (cfgWord \div 2048) % 4  = cfgIn.gain
        /\ (cfgWord \div 128)  % 16 = cfgIn.bus_adc_resolution
        /\ (cfgWord \div 8)    % 16 = cfgIn.shunt_adc_resolution
        /\ cfgWord % 8              = cfgIn.mode
        /\ cfgWord = cfgIn.bus_voltage_range * 8192 + cfgIn.gain * 2048
                     + cfgIn.bus_adc_resolution * 128
                     + cfgIn.shunt_adc_resolution * 8 + cfgIn.mode
        /\ cfgWord \div 16384 = 0

C8_Witness ==
    /\ cfgWord # None
    /\ cfgIn = [bus_voltage_range |-> 0, gain |-> 2, bus_adc_resolution |-> 15,
                shunt_adc_resolution |-> 9, mode |-> 5]
    /\ cfgWord = 6093

\* C9: every constructed sensor caches current LSB 0.1 mA (100 uA),
\* calibration value 4096 and power LSB 2.0 mW (2000 uW), with power LSB =
\* 20 x current LSB, and its construction wrote the cached calibration value
\* to the Calibration register.
C9_CalibrationState ==
    /\ \A d \in 1..Len(drivers) :
          /\ drivers[d]._current_lsb = 100
          /\ drivers[d]._cal_value = 4096
          /\ drivers[d]._power_lsb = 2000
          /\ drivers[d]._power_lsb = 20 * drivers[d]._current_lsb
    /\ Created(lastOp) =>
          LET cal == WritesTo(lastOp.log, _REG_CALIBRATION)
          IN  /\ cal # <<>>
              /\ \A i \in 1..Len(cal) :
                    cal[i].data[1] * 256 + cal[i].data[2] = drivers[lastOp.drv]._cal_value

C9_Witness ==
    /\ Created(lastOp)
    /\ drivers[lastOp.drv]._cal_value = 4096
    /\ WritesTo(lastOp.log, _REG_CALIBRATION)[1].data = <<16, 0>>

\* C10: with the sensor auto-detected on a bus where exactly one address a
\* of [0x03, 0x76] acknowledges, every register transaction of the plugin
\* targets a, and a current read of raw word w returns signed(w) x 0.1 mA.
C10_EndToEnd ==
    (Cardinality(acks \cap ValidProbeRange) = 1
        /\ lastOp.name \in {"ini_detector", "grab_data"}) =>
        /\ \A i \in 1..Len(lastOp.log) :
              lastOp.log[i].op \in {"read", "write"} =>
                  lastOp.log[i].addr = Lowest(acks \cap ValidProbeRange)
        /\ (lastOp.name = "grab_data" /\ lastOp.err = "none") =>
              lastOp.ret = <<TwosComplement16(lastOp.raw) * 100>>

\* C11: a sensor has one bus handle of its own and none is opened for its
\* address probe; once its close_communication has been called, no handle
\* opened on its behalf is open.  (A probe's handle is the one opened right
\* after the handle of the sensor that probes.)
ProbeHandleOf(d) ==
    IF drivers[d].bus + 1 <= Len(handles) /\ handles[drivers[d].bus + 1].by = "probe"
    THEN {drivers[d].bus + 1} ELSE {}

C11_SingleOwnedHandle ==
    \A d \in 1..Len(drivers) :
        /\ handles[drivers[d].bus].by = "driver"
        /\ ProbeHandleOf(d) = {}
        /\ drivers[d].closeCalled =>
              \A h \in {drivers[d].bus} \cup ProbeHandleOf(d) : ~handles[h].open

\* C12: a register read or write transaction that fails is the last
\* transaction of its operation (it is not issued again) and the operation
\* raises instead of returning a value.
C12_FailedTransactionNotRetried ==
    \A i \in 1..Len(lastOp.log) :
        (lastOp.log[i].op \in {"read", "write"} /\ ~lastOp.log[i].ok) =>
            /\ i = Len(lastOp.log)
            /\ lastOp.err \in {"OSError", "IOError"}
            /\ lastOp.ret = <<>>

C12_Witness ==
    /\ lastOp.name = "get_current_mA"
    /\ Len(lastOp.log) = 1
    /\ lastOp.log[1].op = "read" /\ ~lastOp.log[1].ok
    /\ lastOp.err = "OSError"

\* C13 as claimed: the address of every constructed sensor lies in
\* [0x03, 0x76].
C13_AddressInRange ==
    \A d \in 1..Len(drivers) : drivers[d].addr \in ValidProbeRange

\* C13 amended: an address found by probing lies in [0x03, 0x76], an address
\* passed to the constructor is used as given; either way the address of a
\* sensor never changes and every register transaction of an operation on
\* the sensor targets it.
C13_AddressFixed ==
    [][ /\ Len(drivers') >= Len(drivers)
        /\ \A d \in 1..Len(drivers) : drivers'[d].addr = drivers[d].addr
        /\ lastOp'.drv # None =>
              \A i \in 1..Len(lastOp'.log) :
                  lastOp'.log[i].op \in {"read", "write"} =>
                      lastOp'.log[i].addr = drivers'[lastOp'.drv].addr
        /\ (lastOp'.name = "ini_detector" /\ Created(lastOp')) =>
              drivers'[lastOp'.drv].addr \in ValidProbeRange
        /\ (lastOp'.name = "UPSCurrentSensor" /\ Created(lastOp')) =>
              drivers'[lastOp'.drv].addr = lastOp'.found
      ]_vars

C13_Witness ==
    /\ lastOp.name = "get_current_mA"
    /\ lastOp.err = "none"
    /\ drivers[lastOp.drv].addr = 119
    /\ lastOp.log[1].addr = 119

\* C15: a read of the Current register that fails returns no value and
\* raises, and grab_data emits no sample for it.
FailedRead(op) ==
    \E i \in 1..Len(op.log) : op.log[i].op = "read" /\ ~op.log[i].ok

C15_FailedReadNoReading ==
    (IsRead(lastOp) /\ (FailedRead(lastOp) \/ lastOp.err # "none")) =>
        /\ lastOp.err # "none"
        /\ lastOp.ret = <<>>
        /\ lastOp.emitted = <<>>

C15_Witness ==
    /\ lastOp.name = "grab_data"
    /\ FailedRead(lastOp)
    /\ lastOp.err = "OSError"
    /\ lastOp.emitted = <<>>

\* C16: a sensor comes into being only through a construction that resolved
\* an address and then wrote Calibration and Config successfully, without
\* any read; a read transaction is issued only on such a sensor while it is
\* not closed; a closed sensor stays closed with its handle closed.
OkWriteAt(log, i, reg) ==
    log[i].op = "write" /\ log[i].reg = reg /\ log[i].ok

C16_Lifecycle ==
    [][ /\ Len(drivers') >= Len(drivers)
        /\ Len(drivers') > Len(drivers) =>
              LET log == lastOp'.log
              IN  /\ Len(drivers') = Len(drivers) + 1
                  /\ Created(lastOp')
                  /\ lastOp'.drv = Len(drivers')
                  /\ drivers'[Len(drivers')].addr # None
                  /\ ~drivers'[Len(drivers')].closeCalled
                  /\ \E i, j \in 1..Len(log) :
                        /\ i < j
                        /\ OkWriteAt(log, i, _REG_CALIBRATION)
                        /\ OkWriteAt(log, j, _REG_CONFIG)
                  /\ \A i \in 1..Len(log) : log[i].op = "write" => log[i].ok
                  /\ \A i \in 1..Len(log) : log[i].op # "read"
        /\ (\E i \in 1..Len(lastOp'.log) : lastOp'.log[i].op = "read") =>
              /\ lastOp'.drv \in 1..Len(drivers)
              /\ ~drivers[lastOp'.drv].closeCalled
              /\ handles[drivers[lastOp'.drv].bus].open
        /\ \A d \in 1..Len(drivers) :
              drivers[d].closeCalled =>
                  /\ drivers'[d].closeCalled
                  /\ ~handles'[drivers'[d].bus].open
      ]_vars

C16_Witness ==
    /\ lastOp.name = "grab_data"
    /\ lastOp.err = "none"
    /\ Len(lastOp.log) = 1
    /\ lastOp.log[1].op = "read" /\ lastOp.log[1].ok
    /\ \E d \in 1..Len(drivers) : drivers[d].closeCalled

\* C18: a construction with an explicit address issues no quick write; its
\* first bus transaction is the Calibration register write to that address.
C18_ExplicitAddressNoProbe ==
    lastOp.name = "UPSCurrentSensor" =>
        /\ QuickWrites(lastOp.log) = <<>>
        /\ lastOp.log # <<>> =>
              /\ lastOp.log[1].op = "write"
              /\ lastOp.log[1].reg = _REG_CALIBRATION
              /\ lastOp.log[1].addr \in ExplicitAddrs
              /\ lastOp.log[1].addr = lastOp.found
        /\ lastOp.err \in {"none", "OSError", "IOError"} => lastOp.log # <<>>

C18_Witness ==
    /\ lastOp.name = "UPSCurrentSensor"
    /\ lastOp.err = "none"
    /\ lastOp.log[1] = [Tx("write", 119, _REG_CALIBRATION, <<16, 0>>) EXCEPT !.ok = TRUE]

\* C17: a write sends the high byte (v >> 8) & 0xFF and then the low byte
\* v & 0xFF, a read combines the bytes it receives as byte0 * 256 + byte1,
\* and writing a 16-bit value v to a register that stores the bytes and
\* reading it back returns v.
C17_WordRoundTrip ==
    /\ word.bytes # <<>> =>
          /\ Len(word.bytes) = 2
          /\ word.bytes[1] = (word.v \div 256) % 256
          /\ word.bytes[2] = word.v % 256
    /\ word.back # None =>
          /\ word.back = word.bytes[1] * 256 + word.bytes[2]
          /\ word.back = word.v

C17_Witness ==
    /\ word.v = 43981
    /\ word.bytes = <<171, 205>>
    /\ word.back = 43981

\* C19: every Bus Voltage word read decodes to overflow = bit 0,
\* conversion_ready = bit 1 and voltage_mV = (raw >> 3) x 4, so that bits 0
\* to 2 never reach the voltage; the word with bits 3-15 = 1000, bit 1 set
\* and bit 0 clear decodes to 4000 mV, ready, no overflow; a load voltage
\* acquisition returns and emits the voltage of the last word read.
WordOf(tx) == tx.data[1] * 256 + tx.data[2]

BoundedVoltageRetry ==
    volt.op.name = "grab_data" =>
        LET reads == volt.op.reads
        IN  /\ Len(reads) <= 2
            /\ \A i \in 1..Len(reads) :
                  reads[i].op = "read" /\ reads[i].reg = _REG_BUSVOLTAGE
            /\ Len(reads) = 2 <=>
                  (/\ Len(reads) >= 1
                   /\ reads[1].ok
                   /\ ~decodeBusVoltage(WordOf(reads[1])).conversion_ready)

NoReissue(log) ==
    \A i, j \in 1..Len(log) :
        (i < j /\ log[i].op \in {"read", "write"}) =>
            [log[j] EXCEPT !.ok = TRUE] # [log[i] EXCEPT !.ok = TRUE]

C20_OnlySanctionedRetry ==
    /\ BoundedVoltageRetry
    /\ NoReissue(lastOp.log)

\* C14: at most one bus transaction is in flight at any instant: no two
\* callers are inside a bus call at the same time, so a register read that
\* has started completes before another transaction starts.
InFlight == {t \in 1..NThreads : conc[t].busy}

C14_OneTransactionInFlight == Cardinality(InFlight) <= 1

\* C21: when a construction fails, every bus handle it opened is closed by
\* the time the error reaches the caller.
C21_FailedInitClosesHandles ==
    [][ (IsConstruct(lastOp') /\ lastOp'.err # "none") =>
          \A h \in (Len(handles) + 1)..Len(handles') : ~handles'[h].open
      ]_vars

\* C22: whenever ini_detector has returned initialized = True, the plugin
\* holds a sensor (controller is not None) that is not closed, master or not.
C22_InitializedHasController ==
    (lastOp.name = "ini_detector" /\ lastOp.initialized) =>
        /\ controller # None
        /\ ~drivers[controller].closeCalled

\* C23: once the relay plugin is initialized, the relay_state setting is
\* 'ON' exactly when the configured pin is driven LOW (get_state returns 1).
C23_SettingMatchesRelay ==
    (relay.gpio_relay # None /\ ~relay.closed) =>
        (relay.settings.relay_state = "ON"
            <=> get_state(relay.pins, relay.relay_pin) = 1)

\* C24: right after ini_stage, move_home and stop_motion the relay is OFF
\* (pin driven HIGH, get_state returns 0) whatever its state was before, and
\* move_abs(v) turns it ON only for v = 1.
C24_OffAfterInitHomeStop ==
    /\ (relay.op.name \in {"ini_stage", "move_home", "stop_motion"}
          /\ relay.gpio_relay # None /\ ~relay.closed) =>
          /\ relay.pins[relay.relay_pin] = "HIGH"
          /\ get_state(relay.pins, relay.relay_pin) = 0
    /\ (relay.op.name = "move_abs" /\ relay.op.err = "none"
          /\ get_state(relay.pins, relay.relay_pin) = 1) =>
          relay.op.arg = 10

\* C25: a relay_pin change that fails while setting up the new pin leaves
\* relay_pin and the wrapper on the previous pin, that pin still set up as
\* an output, and set_state on it succeeding.
C25_FailedPinChangeKeepsOldPin ==
    [][ (/\ relay'.op.name = "commit_settings(relay_pin)"
         /\ relay'.op.status = "Failed to update relay pin"
         /\ relay.gpio_relay # None
         /\ relay.pins[relay.relay_pin] # "unset") =>
          /\ relay'.relay_pin = relay.relay_pin
          /\ relay'.gpio_relay = relay.gpio_relay
          /\ relay'.pins[relay'.relay_pin] # "unset"
          /\ set_state(relay'.pins, relay'.gpio_relay, 1).err = "none"
          /\ set_state(relay'.pins, relay'.gpio_relay, 0).err = "none"
      ]_vars

\* C26: a relay_pin change to a pin outside VALID_GPIO_PINS changes no GPIO
\* channel, neither the wrapper nor self.relay_pin nor the relay_state
\* setting, and emits the invalid-pin status only.
C26_InvalidPinNoEffect ==
    [][ (relay'.op.name = "commit_settings(relay_pin)"
           /\ relay'.op.arg \notin VALID_GPIO_PINS) =>
          /\ relay'.pins = relay.pins
          /\ relay'.mode = relay.mode
          /\ relay'.gpio_relay = relay.gpio_relay
          /\ relay'.relay_pin = relay.relay_pin
          /\ relay'.settings.relay_state = relay.settings.relay_state
          /\ relay'.closed = relay.closed
          /\ relay'.op.err = "none"
          /\ relay'.op.status = "Invalid GPIO pin"
      ]_vars

C26_Witness ==
    /\ relay.op.name = "commit_settings(relay_pin)"
    /\ relay.op.status = "Invalid GPIO pin"
    /\ relay.settings.relay_pin = 1
    /\ relay.relay_pin = 26
    /\ relay.gpio_relay = 26
    /\ relay.pins[26] = "LOW"

\* C27: move_to_angle accepts exactly the angles of [0, 180]; an accepted
\* angle sets the servo value to angle / 90 - 1 and is recorded; a refused
\* angle raises ValueError and a failed hardware assignment changes neither
\* the servo value nor the recorded angle; so the recorded angle
\* (get_current_angle) is always the angle the servo was last set to.
C27_MoveToAngle ==
    [][ /\ (servo'.op.name \in {"move_abs", "move_rel", "move_home"}
              /\ servo.controller.exists) =>
              LET a == servo'.op.arg
              IN  /\ (a \in 0..1800) <=> (servo'.op.err # "ValueError")
                  /\ servo'.op.ret = <<"moved">> =>
                        /\ servo'.controller.value = a - 900
                        /\ servo'.controller.current_angle = a
                  /\ servo'.op.ret # <<"moved">> =>
                        servo'.controller = servo.controller
        /\ servo'.controller.exists =>
              servo'.controller.value = get_current_angle(servo'.controller) - 900
      ]_vars

\* C28: after a trigger_pin or echo_pin change to two valid pins on a
\* plugin that holds a sensor, the previous sensor is closed and the
\* controller is a sensor on the new pins that is not closed.
C28_PinChangeLiveSensor ==
    [][ (/\ dist'.op.name = "commit_settings"
         /\ dist'.settings.trigger_pin \in VALID_GPIO_PINS
         /\ dist'.settings.echo_pin \in VALID_GPIO_PINS
         /\ dist.controller.exists) =>
          /\ dist'.sensors[dist.controller.id].closed
          /\ dist'.controller.exists
          /\ ~dist'.sensors[dist'.controller.id].closed
          /\ dist'.controller.trigger_pin = dist'.settings.trigger_pin
          /\ dist'.controller.echo_pin = dist'.settings.echo_pin
          /\ get_distance(dist'.sensors, dist'.controller).err = "none"
      ]_vars

====
